---- MODULE Spec2Model ----
(***************************************************************************)
(* Model of the mock betting backend (src/src/mockServer/server.js): the   *)
(* four in-memory Maps (users, bets, sessions, accountFlags), the          *)
(* authentication middleware, the fraud rule engine and the route          *)
(* handlers.                                                               *)
(*                                                                         *)
(* Conventions                                                             *)
(*  - A JSON field that may be absent is None (= <<>>) or Some(v) (=<<v>>).*)
(*  - Date.now() is the variable now, in milliseconds from the start of    *)
(*    the run.  A handler runs to completion within one reading of the     *)
(*    clock; the clock advances between requests (Tick), so two requests   *)
(*    may or may not fall in the same millisecond.                         *)
(*  - Identifiers are the strings the code builds from Date.now(); they    *)
(*    are written here as the integer they spell.  ForeignId is a string   *)
(*    that no Date.now() of the run spells.                                *)
(*  - JavaScript objects are shared by reference: objs is the heap of user *)
(*    objects, and users and sessions hold indexes into it.                *)
(*  - user.createdAt and session.createdAt are written but never read by   *)
(*    any handler and are left out of the state.                           *)
(***************************************************************************)
EXTENDS Integers, Sequences, FiniteSets, TLC

VARIABLES now, objs, users, sessions, accountFlags, bets, res, call, result,
          inflight, retry, appium

vars == <<now, objs, users, sessions, accountFlags, bets, res, call, result,
          inflight, retry, appium>>
stores == <<objs, users, sessions, accountFlags, bets>>
\* the argument and the result of a function evaluated on its own
pure == <<call, result>>
\* everything the sequential backend model leaves alone: pure, the requests
\* whose handlers are pending on the event loop, and the test utilities
idle == <<pure, inflight, retry, appium>>

-----------------------------------------------------------------------------
(* Bounds of the model *)

MaxTime == 1
\* user objects, sessions, flags and bets held by the process, together
MaxStore == 5

(* Program constants *)

Hour == 3600000
OddsLimit == 20
BlockThreshold == 3

-----------------------------------------------------------------------------
(* Optional JSON fields and JavaScript truthiness *)

None == <<>>
Some(v) == <<v>>
Has(f) == f # <<>>
Val(f) == f[1]

\* !x for a numeric field: undefined and 0 are falsy
TruthyNum(f) == Has(f) /\ Val(f) # 0
\* !x for a string field: undefined and "" are falsy
TruthyStr(f) == Has(f) /\ Val(f) # ""
\* x || y for a boolean field: undefined and false are falsy
TruthyBool(f) == Has(f) /\ Val(f) = TRUE

ForeignId == 0 - 1

\* userId.substring(0, 5): every Date.now() string of a run starts with the
\* same five digits; a foreign string keeps its own prefix
Substring5(id) == IF id >= 0 THEN 0 ELSE id

\* Map.prototype.set on a Map modelled as a function
MapSet(m, k, v) == (k :> v) @@ m
RECURSIVE SumLen(_, _)
SumLen(m, keys) ==
  IF keys = {} THEN 0
  ELSE LET k == CHOOSE x \in keys : TRUE
       IN Len(m[k]) + SumLen(m, keys \ {k})

\* the number of user objects, sessions, flags and bets held
StoreSize(os, ses, flags, bs) ==
  Len(os) + Cardinality(DOMAIN ses) + SumLen(flags, DOMAIN flags) + Len(bs)

\* Map.prototype.get(k) || dflt
MapGetOr(m, k, dflt) == IF k \in DOMAIN m THEN m[k] ELSE dflt

-----------------------------------------------------------------------------
(* Fraud rule engine: server.js lines 132-171 *)

\* a match id is the sequence of the segments of its string; "" and an
\* absent field are both <<>>
Includes(s, seg) == \E i \in 1..Len(s) : s[i] = seg

AmountRule(betData) == Has(betData.amount) /\ Val(betData.amount) <= 0
OddsRule(betData) == Has(betData.odds) /\ Val(betData.odds) > OddsLimit
MatchRule(betData) == Includes(betData.matchId, "-altered")
\* the rule, were a timestamp exactly one hour old to match too
TimestampRule_AtOneHour(betData, t) ==
  Has(betData.timestamp) /\ Val(betData.timestamp) <= t - Hour
TimestampRule(betData, t) ==
  Has(betData.timestamp) /\ Val(betData.timestamp) < t - Hour
TamperRule(betData) ==
  TruthyBool(betData.serverBypass) \/ TruthyBool(betData.adminApproval)

NoFraud == [isFraudulent |-> FALSE, fraudReason |-> "", fraudType |-> ""]

\* one `if (cond) { isFraudulent = true; fraudReason = ..; fraudType = .. }`
Check(v, cond, reason, type) ==
  IF cond THEN [isFraudulent |-> TRUE, fraudReason |-> reason, fraudType |-> type]
  ELSE v

\* the engine, were it to stop at the first rule that matches
FraudVerdict_FirstMatch(betData, t) ==
  IF AmountRule(betData)
  THEN Check(NoFraud, TRUE, "Fraud detected: Invalid bet amount", "negative-amount")
  ELSE IF OddsRule(betData)
  THEN Check(NoFraud, TRUE, "Fraud detected: Suspicious odds manipulation",
             "odds-manipulation")
  ELSE IF MatchRule(betData)
  THEN Check(NoFraud, TRUE, "Fraud detected: Match ID tampering detected",
             "match-alteration")
  ELSE IF TimestampRule(betData, t)
  THEN Check(NoFraud, TRUE, "Fraud detected: Timestamp manipulation detected",
             "timestamp-manipulation")
  ELSE Check(NoFraud, TamperRule(betData),
             "Fraud detected: Unauthorized request fields", "request-tampering")

FraudVerdict(betData, t) ==
  LET v1 == Check(NoFraud, AmountRule(betData),
                  "Fraud detected: Invalid bet amount", "negative-amount")
      v2 == Check(v1, OddsRule(betData),
                  "Fraud detected: Suspicious odds manipulation", "odds-manipulation")
      v3 == Check(v2, MatchRule(betData),
                  "Fraud detected: Match ID tampering detected", "match-alteration")
      v4 == Check(v3, TimestampRule(betData, t),
                  "Fraud detected: Timestamp manipulation detected", "timestamp-manipulation")
      v5 == Check(v4, TamperRule(betData),
                  "Fraud detected: Unauthorized request fields", "request-tampering")
  IN v5

\* !betData.odds: the odds are sent as a number or, when oddsText is set, as
\* the decimal string of the number in the field; a string of digits is
\* truthy even when it spells 0, and parseFloat reads back the number
TruthyOdds(betData) ==
  Has(betData.odds) /\ (betData.oddsText \/ Val(betData.odds) # 0)

\* the validation, were it to forget the selection
MissingBetInfo_NoSelection(betData) ==
  \/ ~(Len(betData.matchId) > 0)
  \/ ~TruthyNum(betData.amount)
  \/ ~TruthyOdds(betData)

\* `!betData.matchId || !betData.amount || !betData.odds || !betData.selection`
MissingBetInfo(betData) ==
  \/ ~(Len(betData.matchId) > 0)
  \/ ~TruthyNum(betData.amount)
  \/ ~TruthyOdds(betData)
  \/ ~TruthyStr(betData.selection)

\* the handler, were the fraud branch never taken
PlaceOutcome_NoReject(betData, t) ==
  IF MissingBetInfo(betData) THEN "missing" ELSE "legit"

\* the branch POST /bets/place takes once the request is authenticated
PlaceOutcome(betData, t) ==
  IF MissingBetInfo(betData) THEN "missing"
  ELSE IF FraudVerdict(betData, t).isFraudulent THEN "fraud"
  ELSE "legit"

-----------------------------------------------------------------------------
(* Requests and responses *)

NoRes == [op |-> "none", status |-> 0, error |-> "", fraudType |-> "", details |-> "",
          token |-> None, user |-> None, bet |-> None, list |-> <<>>,
          view |-> None]

Reply(status, error) == [NoRes EXCEPT !.status = status, !.error = error]
\* the reply r, tagged with the route that sent it
From(op, r) == [r EXCEPT !.op = op]

\* Authorization header: absent (<<>>), or the space separated parts of its
\* value.  authHeader && authHeader.split(' ')[1]
HeaderToken(auth) == IF Len(auth) >= 2 THEN Some(auth[2]) ELSE None
Bearer(tok) == <<"Bearer", tok>>

\* the middleware, were it to answer a missing token like an unknown one
AuthReject_OneMessage(auth) ==
  IF ~Has(HeaderToken(auth)) \/ Val(HeaderToken(auth)) \notin DOMAIN sessions
  THEN Reply(401, "Unauthorized: Invalid token")
  ELSE NoRes

\* authenticateToken: the 401 reply, or NoRes when next() is called
AuthReject(auth) ==
  IF ~Has(HeaderToken(auth)) THEN Reply(401, "Unauthorized: Missing token")
  ELSE IF Val(HeaderToken(auth)) \notin DOMAIN sessions
       THEN Reply(401, "Unauthorized: Invalid token")
  ELSE NoRes

\* the middleware, were it to let only active accounts through
Authenticated_ActiveOnly(auth) ==
  /\ AuthReject(auth).status = 0
  /\ objs[sessions[Val(HeaderToken(auth))]].status # "blocked"

\* next() was called
Authenticated(auth) == AuthReject(auth).status = 0
\* req.user, as an index of objs
ReqUser(auth) == sessions[Val(HeaderToken(auth))]

\* Buffer.from(`${userId}:${Date.now()}`).toString('base64')
Token(userId, t) == <<userId, t>>

\* { id: user.id, username: user.username, email: user.email, status: user.status }
PublicUser(user) ==
  [id |-> user.id, username |-> user.username, email |-> user.email,
   status |-> user.status]

-----------------------------------------------------------------------------
(* Inputs *)

Usernames == {"alice", "bob"}

\* registration bodies: complete ones, one of them also with an extra id
\* field (the id string of the instant 0, or a foreign string), one that
\* repeats only an email, and incomplete ones
RegisterBodies ==
  [username : {Some("bob")}, email : {Some("b@x")}, password : {Some("pw")},
   id : {None, Some(0), Some(ForeignId)}]
  \cup {[username |-> Some("alice"), email |-> Some("a@x"), password |-> Some("pw"),
         id |-> None],
        [username |-> Some("bob"), email |-> Some("a@x"), password |-> Some("pw"),
         id |-> None],
        [username |-> Some("alice"), email |-> Some("a@x"), password |-> None,
         id |-> None],
        [username |-> None, email |-> Some("a@x"), password |-> Some("pw"),
         id |-> None]}

LoginBodies ==
  [username : {Some(u) : u \in Usernames}, password : {Some("pw")}]
  \cup {[username |-> Some("alice"), password |-> Some("bad")]}

LegitBet ==
  [matchId |-> <<"M1">>, amount |-> Some(50), odds |-> Some(2), oddsText |-> FALSE,
   selection |-> Some("home"), timestamp |-> None, serverBypass |-> None,
   adminApproval |-> None, userId |-> None]

\* the bet bodies of the backend's state machine: legitimate (one naming an
\* owner), fraudulent by one rule and by two, and incomplete; FraudBodies
\* below ranges over every combination of the rule conditions
NegativeBet == [LegitBet EXCEPT !.amount = Some(0 - 50)]

BetBodies ==
  {LegitBet,
   [LegitBet EXCEPT !.userId = Some(0)],
   NegativeBet,
   [LegitBet EXCEPT !.amount = Some(0)],
   [LegitBet EXCEPT !.matchId = <<"M1", "-altered">>, !.adminApproval = Some(TRUE)],
   [LegitBet EXCEPT !.selection = None, !.amount = Some(0 - 50)]}

\* a token no session holds
InvalidToken == <<0 - 2, 0>>

\* headers that authenticate, and headers that do not
ValidHeaders == {Bearer(tok) : tok \in DOMAIN sessions}
RejectedHeaders == {<<>>, Bearer(InvalidToken)}
AuthHeaders == ValidHeaders \cup RejectedHeaders

Init ==
  /\ now = 0
  /\ objs = <<>>
  /\ users = <<>>
  /\ sessions = <<>>
  /\ accountFlags = <<>>
  /\ bets = <<>>
  /\ res = NoRes
  /\ call = None
  /\ result = None
  /\ inflight = <<>>
  /\ retry = <<>>
  /\ appium = <<>>

-----------------------------------------------------------------------------
(* POST /auth/register: server.js lines 47-86 *)

\* the duplicate check, were it to compare usernames only
UsernameOrEmailExists_UsernameOnly(userData) ==
  \E k \in DOMAIN users : Some(objs[users[k]].username) = userData.username

\* users.values().some(user => user.username === .. || user.email === ..)
UsernameOrEmailExists(userData) ==
  \E k \in DOMAIN users :
    \/ Some(objs[users[k]].username) = userData.username
    \/ Some(objs[users[k]].email) = userData.email

\* { id: userId, ...userData, createdAt, status: 'active' }
NewUser(userId, userData) ==
  [id |-> IF Has(userData.id) THEN Val(userData.id) ELSE userId,
   username |-> Val(userData.username),
   email |-> Val(userData.email),
   password |-> Val(userData.password),
   status |-> "active"]

Register(userData) ==
  /\ IF ~TruthyStr(userData.username) \/ ~TruthyStr(userData.email)
        \/ ~TruthyStr(userData.password)
     THEN /\ res' = From("register", Reply(400, "Missing required fields"))
          /\ UNCHANGED <<now, stores>>
     ELSE IF UsernameOrEmailExists(userData)
     THEN /\ res' = From("register", Reply(409, "Username or email already exists"))
          /\ UNCHANGED <<now, stores>>
     ELSE LET userId == now
              user == NewUser(userId, userData)
              o == Len(objs) + 1
              token == Token(userId, now)
          IN /\ objs' = Append(objs, user)
             /\ users' = MapSet(users, userId, o)
             /\ accountFlags' = MapSet(accountFlags, userId, <<>>)
             /\ sessions' = MapSet(sessions, token, o)
             /\ StoreSize(objs', sessions', accountFlags', bets) <= MaxStore
             /\ res' = [From("register", NoRes) EXCEPT
                          !.status = 201, !.token = Some(token),
                          !.user = Some(PublicUser(user))]
             /\ UNCHANGED <<now, bets>>

-----------------------------------------------------------------------------
(* POST /auth/login: server.js lines 89-118 *)

\* the lookup, were it to compare usernames only
LoginMatches_UsernameOnly(body) ==
  {k \in DOMAIN users : Some(objs[users[k]].username) = body.username}

\* Array.from(users.values()).find(u => u.username === username &&
\* u.password === password): the keys whose user matches (stored usernames
\* are unique, so at most one does)
LoginMatches(body) ==
  {k \in DOMAIN users : /\ Some(objs[users[k]].username) = body.username
                        /\ Some(objs[users[k]].password) = body.password}

\* the login handler, were it not to look at the account status
LoginReject_NoStatusCheck(body) ==
  IF LoginMatches(body) = {} THEN Reply(401, "Invalid credentials") ELSE NoRes

\* the reply of the login handler before a token is minted, NoRes if none
LoginReject(body) ==
  IF LoginMatches(body) = {} THEN Reply(401, "Invalid credentials")
  ELSE IF objs[users[CHOOSE k \in LoginMatches(body) : TRUE]].status = "blocked"
       THEN Reply(403, "Account is blocked")
  ELSE NoRes

Login(body) ==
  /\ IF LoginReject(body) # NoRes
     THEN /\ res' = From("login", LoginReject(body))
          /\ UNCHANGED <<now, stores>>
     ELSE LET o == users[CHOOSE k \in LoginMatches(body) : TRUE]
              user == objs[o]
              token == Token(user.id, now)
          IN /\ sessions' = MapSet(sessions, token, o)
             /\ StoreSize(objs, sessions', accountFlags, bets) <= MaxStore
             /\ res' = [From("login", NoRes) EXCEPT !.status = 200, !.token = Some(token),
                                     !.user = Some(PublicUser(user))]
             /\ UNCHANGED <<now, objs, users, accountFlags, bets>>

-----------------------------------------------------------------------------
(* POST /bets/place: server.js lines 123-225 *)

FraudAttempts(flags) ==
  Cardinality({i \in 1..Len(flags) : flags[i].type = "fraud_attempt"})

\* bets.set(betId, bet) on the Map kept in insertion order
BetsSet(bs, betId, bet) ==
  IF \E i \in 1..Len(bs) : bs[i].key = betId
  THEN [i \in 1..Len(bs) |->
          IF bs[i].key = betId THEN [key |-> betId, val |-> bet] ELSE bs[i]]
  ELSE Append(bs, [key |-> betId, val |-> bet])

\* { id: betId, userId, ...betData, status: 'pending', createdAt }
NewBet(betId, userId, betData, t) ==
  [id |-> betId,
   userId |-> IF Has(betData.userId) THEN Val(betData.userId) ELSE userId,
   data |-> betData,
   status |-> "pending",
   createdAt |-> t]

\* the objs after `if (count >= 3) { user = users.get(userId); if (user) ... }`
BlockIfRepeated(userFlags, userId) ==
  IF FraudAttempts(userFlags) >= BlockThreshold /\ userId \in DOMAIN users
  THEN [objs EXCEPT ![users[userId]].status = "blocked"]
  ELSE objs

\* { type: 'fraud_attempt', reason: fraudReason, timestamp, data: betData }
FraudFlag(verdict, betData, t) ==
  [type |-> "fraud_attempt", reason |-> verdict.fraudReason, timestamp |-> t,
   data |-> betData]

\* the body of the 400 reply of the fraud branch
FraudReply(verdict) ==
  [From("place", NoRes) EXCEPT !.status = 400,
                               !.error = verdict.fraudReason,
                               !.fraudType = verdict.fraudType,
                               !.details = verdict.fraudReason]

PlaceBetHandler(auth, betData) ==
  /\ IF ~Authenticated(auth)
     THEN /\ res' = From("place", AuthReject(auth))
          /\ UNCHANGED <<now, stores>>
     ELSE LET userId == objs[ReqUser(auth)].id
              outcome == PlaceOutcome(betData, now)
              verdict == FraudVerdict(betData, now)
          IN CASE outcome = "missing" ->
                  /\ res' = From("place", Reply(400, "Missing required bet information"))
                  /\ UNCHANGED <<now, stores>>
               [] outcome = "fraud" ->
                  /\ LET userFlags ==
                           Append(MapGetOr(accountFlags, userId, <<>>),
                                  FraudFlag(verdict, betData, now))
                     IN /\ accountFlags' = MapSet(accountFlags, userId, userFlags)
                        /\ objs' = BlockIfRepeated(userFlags, userId)
                  /\ res' = FraudReply(verdict)
                  /\ UNCHANGED <<now, users, sessions, bets>>
               [] outcome = "legit" ->
                  /\ LET betId == <<now, Substring5(userId)>>
                         bet == NewBet(betId, userId, betData, now)
                     IN /\ bets' = BetsSet(bets, betId, bet)
                        /\ res' = [From("place", NoRes) EXCEPT
                                     !.status = 201,
                                     !.bet = Some([id |-> bet.id,
                                                   matchId |-> betData.matchId,
                                                   selection |-> betData.selection,
                                                   odds |-> betData.odds,
                                                   amount |-> betData.amount,
                                                   status |-> "pending"])]
                  /\ UNCHANGED <<now, objs, users, sessions, accountFlags>>

\* the handler, within the store bound
PlaceBet(auth, betData) ==
  /\ PlaceBetHandler(auth, betData)
  /\ StoreSize(objs', sessions', accountFlags', bets') <= MaxStore

-----------------------------------------------------------------------------
(* GET /bets/history: server.js lines 228-245 *)

\* insert b into a list sorted by (b, a) => b.createdAt - a.createdAt, after
\* the elements it does not precede (Array.prototype.sort is stable)
RECURSIVE InsertByDate(_, _)
InsertByDate(sorted, b) ==
  IF sorted = <<>> THEN <<b>>
  ELSE IF Head(sorted).createdAt >= b.createdAt
       THEN <<Head(sorted)>> \o InsertByDate(Tail(sorted), b)
       ELSE <<b>> \o sorted

RECURSIVE SortNewestFirst(_)
SortNewestFirst(list) ==
  IF list = <<>> THEN <<>>
  ELSE InsertByDate(SortNewestFirst(SubSeq(list, 1, Len(list) - 1)), list[Len(list)])

UserBets(userId) ==
  SortNewestFirst(SelectSeq([i \in 1..Len(bets) |-> bets[i].val],
                            LAMBDA bet : bet.userId = userId))

HistoryView(bet) ==
  [id |-> bet.id, matchId |-> bet.data.matchId, selection |-> bet.data.selection,
   odds |-> bet.data.odds, amount |-> bet.data.amount, status |-> bet.status,
   createdAt |-> bet.createdAt]

HistoryReply(auth) ==
  IF ~Authenticated(auth) THEN From("history", AuthReject(auth))
  ELSE LET userBets == UserBets(objs[ReqUser(auth)].id)
       IN [From("history", NoRes) EXCEPT
             !.status = 200,
             !.list = [i \in 1..Len(userBets) |-> HistoryView(userBets[i])]]

BetHistory(auth) ==
  /\ res' = HistoryReply(auth)
  /\ UNCHANGED <<now, stores>>

-----------------------------------------------------------------------------
(* GET /users/account-status: server.js lines 250-270 *)

\* the view, were the restrictions to follow the status instead of the flags
StatusView_RestrictWhenBlocked(userId) ==
  LET user == objs[users[userId]]
      userFlags == MapGetOr(accountFlags, userId, <<>>)
  IN [accountId |-> userId,
      status |-> user.status,
      flags |-> userFlags,
      restrictions |-> IF user.status = "blocked"
                       THEN <<"betting_restricted", "withdrawal_restricted">>
                       ELSE <<>>,
      verificationStatus |-> IF user.status = "blocked" THEN "rejected" ELSE "verified",
      fraudWarnings |-> FraudAttempts(userFlags)]

\* lastUpdated, the instant of the reply, is left out of the view
StatusView(userId) ==
  LET user == objs[users[userId]]
      userFlags == MapGetOr(accountFlags, userId, <<>>)
      hasFraudFlags == \E i \in 1..Len(userFlags) : userFlags[i].type = "fraud_attempt"
  IN [accountId |-> userId,
      status |-> user.status,
      flags |-> userFlags,
      restrictions |-> IF hasFraudFlags
                       THEN <<"betting_restricted", "withdrawal_restricted">>
                       ELSE <<>>,
      verificationStatus |-> IF user.status = "blocked" THEN "rejected" ELSE "verified",
      fraudWarnings |-> FraudAttempts(userFlags)]

StatusReply(auth) ==
  IF ~Authenticated(auth) THEN From("status", AuthReject(auth))
  ELSE LET userId == objs[ReqUser(auth)].id
       IN IF userId \notin DOMAIN users
          THEN From("status", Reply(404, "User not found"))
          ELSE [From("status", NoRes) EXCEPT !.status = 200,
                                            !.view = Some(StatusView(userId))]

\* the handler, were it to initialise a flag list it does not find
AccountStatus_InitFlags(auth) ==
  /\ res' = StatusReply(auth)
  /\ IF Authenticated(auth) /\ objs[ReqUser(auth)].id \notin DOMAIN accountFlags
     THEN /\ accountFlags' = MapSet(accountFlags, objs[ReqUser(auth)].id, <<>>)
          /\ UNCHANGED <<now, objs, users, sessions, bets>>
     ELSE UNCHANGED <<now, stores>>

AccountStatus(auth) ==
  /\ res' = StatusReply(auth)
  /\ UNCHANGED <<now, stores>>

-----------------------------------------------------------------------------
(* GET /health: server.js lines 275-283; the body (status 'OK', timestamp,  *)
(* uptime, version, environment) is read from the process, not the stores   *)

Health ==
  /\ res' = [From("health", NoRes) EXCEPT !.status = 200]
  /\ UNCHANGED <<now, stores>>

\* any other method and path: the 404 handler, server.js lines 287-293
NotFound ==
  /\ res' = From("notfound", Reply(404, "Endpoint not found"))
  /\ UNCHANGED <<now, stores>>

-----------------------------------------------------------------------------
\* the clock advances between requests
Tick ==
  /\ now < MaxTime
  /\ now' = now + 1
  /\ UNCHANGED <<stores, res, idle>>

Next ==
  \/ \E userData \in RegisterBodies : Register(userData) /\ UNCHANGED idle
  \/ \E body \in LoginBodies : Login(body) /\ UNCHANGED idle
  \/ \E auth \in ValidHeaders : \E betData \in BetBodies :
       PlaceBet(auth, betData) /\ UNCHANGED idle
  \/ \E auth \in RejectedHeaders : \E betData \in {LegitBet, NegativeBet} :
       PlaceBet(auth, betData) /\ UNCHANGED idle
  \/ \E auth \in AuthHeaders : BetHistory(auth) /\ UNCHANGED idle
  \/ \E auth \in AuthHeaders : AccountStatus(auth) /\ UNCHANGED idle
  \/ Tick

Spec == Init /\ [][Next]_vars

-----------------------------------------------------------------------------
(* The backend from the instant an account has been blocked: alice has     *)
(* registered and her token has sent three bets with a negative amount     *)

BlockedInit ==
  LET alice == NewUser(0, [username |-> Some("alice"), email |-> Some("a@x"),
                           password |-> Some("pw"), id |-> None])
      verdict == FraudVerdict(NegativeBet, 0)
      flag == FraudFlag(verdict, NegativeBet, 0)
  IN /\ now = 0
     /\ objs = <<[alice EXCEPT !.status = "blocked"]>>
     /\ users = MapSet(<<>>, 0, 1)
     /\ sessions = MapSet(<<>>, Token(0, 0), 1)
     /\ accountFlags = MapSet(<<>>, 0, <<flag, flag, flag>>)
     /\ bets = <<>>
     /\ res = FraudReply(verdict)
     /\ call = None
     /\ result = None
     /\ inflight = <<>>
     /\ retry = <<>>
     /\ appium = <<>>

\* room for two more store entries than the blocking itself takes
BlockedStore == MaxStore + 2

BlockedNext ==
  \/ \E auth \in ValidHeaders : \E betData \in BetBodies :
       /\ PlaceBetHandler(auth, betData)
       /\ StoreSize(objs', sessions', accountFlags', bets') <= BlockedStore
       /\ UNCHANGED idle
  \/ \E body \in LoginBodies : Login(body) /\ UNCHANGED idle
  \/ \E auth \in AuthHeaders : BetHistory(auth) /\ UNCHANGED idle
  \/ \E auth \in AuthHeaders : AccountStatus(auth) /\ UNCHANGED idle
  \/ Tick

BlockedSpec == BlockedInit /\ [][BlockedNext]_vars

\* the backend with its health route and its 404 handler
ServerNext ==
  \/ Next
  \/ Health /\ UNCHANGED idle
  \/ NotFound /\ UNCHANGED idle

ServerSpec == Init /\ [][ServerNext]_vars

-----------------------------------------------------------------------------
(* The fraud rule engine on its own: every combination of the rule          *)
(* conditions, at evaluation times around the one hour limit                *)

FraudBodies ==
  [matchId : {<<"M1">>, <<"M1", "-altered">>, <<"M1", "-altered", "-x">>},
   amount : {Some(0 - 50), Some(0), Some(50)},
   odds : {Some(2), Some(OddsLimit), Some(OddsLimit + 5)},
   oddsText : {FALSE},
   selection : {Some("home")},
   timestamp : {None, Some(0 - 1), Some(0), Some(Hour)},
   serverBypass : {None, Some(TRUE), Some(FALSE)},
   adminApproval : {None, Some(TRUE), Some(FALSE)},
   userId : {None}]

EvalTimes == {Hour - 1, Hour, Hour + 1}

FraudInit ==
  /\ now \in EvalTimes
  /\ objs = <<>>
  /\ users = <<>>
  /\ sessions = <<>>
  /\ accountFlags = <<>>
  /\ bets = <<>>
  /\ res = NoRes
  /\ call \in {Some(betData) : betData \in FraudBodies}
  /\ result = None
  /\ inflight = <<>>
  /\ retry = <<>>
  /\ appium = <<>>

\* lines 132-171 run on the body, at the instant now
Evaluate ==
  /\ result = None
  /\ result' = Some(FraudVerdict(Val(call), now))
  /\ UNCHANGED <<now, stores, res, call, inflight, retry, appium>>

FraudNext == Evaluate

FraudSpec == FraudInit /\ [][FraudNext]_vars

-----------------------------------------------------------------------------
(* Concurrent fraudulent requests on one account.  Express runs the        *)
(* middleware chain and the handler of a request as one callback of the    *)
(* event loop; the requests in flight are served one callback at a time,   *)
(* in any order.  The fraud branch (server.js 174-198) is written here     *)
(* statement by statement, and YieldPoints says where a handler returns to *)
(* the event loop before it has replied.                                   *)

MaxConcurrent == 3

\* were the flag list fetched asynchronously: the handler would give way
\* between reading the list and writing it back
YieldPoints_AfterRead == {"append"}

\* the handler of POST /bets/place holds no await and no callback
YieldPoints == {}

\* the fraudulent bodies of the requests in flight
RaceBodies ==
  {NegativeBet,
   [LegitBet EXCEPT !.odds = Some(OddsLimit + 5)],
   [LegitBet EXCEPT !.matchId = <<"M1", "-altered">>, !.adminApproval = Some(TRUE)]}

AliceBody ==
  [username |-> Some("alice"), email |-> Some("a@x"), password |-> Some("pw"),
   id |-> None]

\* the account registered at instant 0, after two rejected fraudulent bets,
\* with two or more further fraudulent requests received
RaceInit ==
  /\ now = 0
  /\ objs = <<NewUser(0, AliceBody)>>
  /\ users = (0 :> 1)
  /\ sessions = (Token(0, 0) :> 1)
  /\ accountFlags =
       (0 :> <<FraudFlag(FraudVerdict(NegativeBet, 0), NegativeBet, 0),
               FraudFlag(FraudVerdict(NegativeBet, 0), NegativeBet, 0)>>)
  /\ bets = <<>>
  /\ res = FraudReply(FraudVerdict(NegativeBet, 0))
  /\ call = None
  /\ result = None
  /\ inflight \in UNION {[1..n -> [token : {Token(0, 0)}, body : RaceBodies,
                                    pc : {"start"}, userFlags : {<<>>}]] :
                          n \in 2..MaxConcurrent}
  /\ retry = <<>>
  /\ appium = <<>>

\* one statement of the handler, on the request q and the stores it writes
HandlerStep(s) ==
  LET q == s.q
      userId == objs[sessions[q.token]].id
      verdict == FraudVerdict(q.body, now)
  IN CASE q.pc = "start" ->
            \* lines 124-174: validation and the rule engine
            [s EXCEPT !.q.pc = IF PlaceOutcome(q.body, now) = "fraud"
                               THEN "read" ELSE "done"]
       [] q.pc = "read" ->
            \* line 176
            [s EXCEPT !.q.userFlags = MapGetOr(s.flags, userId, <<>>),
                      !.q.pc = "append"]
       [] q.pc = "append" ->
            \* lines 177-183
            LET userFlags == Append(q.userFlags, FraudFlag(verdict, q.body, now))
            IN [s EXCEPT !.q.userFlags = userFlags,
                         !.flags = MapSet(s.flags, userId, userFlags),
                         !.q.pc = "block"]
       [] q.pc = "block" ->
            \* lines 186-192
            [s EXCEPT !.os = IF FraudAttempts(q.userFlags) >= BlockThreshold
                                  /\ userId \in DOMAIN users
                             THEN [s.os EXCEPT ![users[userId]].status = "blocked"]
                             ELSE s.os,
                      !.q.pc = "reply"]
       [] q.pc = "reply" ->
            \* lines 194-198
            [s EXCEPT !.out = FraudReply(verdict), !.q.pc = "done"]

\* the statements a callback runs before it returns to the event loop
RECURSIVE RunToYield(_)
RunToYield(s) ==
  LET s2 == HandlerStep(s)
  IN IF s2.q.pc = "done" \/ s2.q.pc \in YieldPoints THEN s2 ELSE RunToYield(s2)

\* the event loop runs the next callback of request r
RunHandler(r) ==
  /\ inflight[r].pc # "done"
  /\ LET s == RunToYield([flags |-> accountFlags, os |-> objs,
                          q |-> inflight[r], out |-> res])
     IN /\ accountFlags' = s.flags
        /\ objs' = s.os
        /\ inflight' = [inflight EXCEPT ![r] = s.q]
        /\ res' = s.out
  /\ UNCHANGED <<now, users, sessions, bets, pure, retry, appium>>

RaceNext == \E r \in DOMAIN inflight : RunHandler(r)

RaceSpec == RaceInit /\ [][RaceNext]_vars

-----------------------------------------------------------------------------
(* The fraud probe of the API client: ApiClient.placeFraudulentBet         *)
(* (src/unnamed/part_005 lines 74-122) against the backend                 *)

Day == 86400000

Abs(n) == IF n < 0 THEN 0 - n ELSE n

FraudTypes ==
  {"negative-amount", "odds-manipulation", "match-alteration",
   "timestamp-manipulation", "request-tampering"}

\* the switch of lines 78-100 on a clone of the payload, at the client's
\* Date.now() t; (parseFloat(odds) * k).toString() leaves a string
FraudulentBetData(legitimateBetData, fraudType, t) ==
  CASE fraudType = "negative-amount" ->
         [legitimateBetData EXCEPT !.amount = Some(0 - Abs(Val(@)))]
    [] fraudType = "odds-manipulation" ->
         [legitimateBetData EXCEPT !.odds = Some(Val(@) * 10), !.oddsText = TRUE]
    [] fraudType = "match-alteration" ->
         [legitimateBetData EXCEPT !.matchId = Append(@, "-altered")]
    [] fraudType = "timestamp-manipulation" ->
         [legitimateBetData EXCEPT !.timestamp = Some(t - Day)]
    [] fraudType = "request-tampering" ->
         [legitimateBetData EXCEPT !.serverBypass = Some(TRUE),
                                   !.adminApproval = Some(TRUE)]
    [] OTHER ->
         [legitimateBetData EXCEPT !.amount = Some(0 - Abs(Val(@))),
                                   !.odds = Some(Val(@) * 5), !.oddsText = TRUE]

\* axios resolves the promise of a POST on a 2xx status and rejects it on
\* any other status and when no response arrives (status 0 here)
Resolves(response) == response.status >= 200 /\ response.status <= 299

\* the probe, were it to look for the fraud shape of the error body
ProbeResult_FraudShaped(response) ==
  IF Resolves(response)
  THEN [success |-> TRUE, fraudDetected |-> FALSE, statusCode |-> None]
  ELSE [success |-> FALSE,
        fraudDetected |-> response.error # "" /\ response.fraudType # "",
        statusCode |-> IF response.status = 0 THEN None ELSE Some(response.status)]

\* lines 104-121: the value placeFraudulentBet returns
ProbeResult(response) ==
  IF Resolves(response)
  THEN [success |-> TRUE, fraudDetected |-> FALSE, statusCode |-> None]
  ELSE [success |-> FALSE, fraudDetected |-> TRUE,
        statusCode |-> IF response.status = 0 THEN None ELSE Some(response.status)]

\* payloads handed to the probe: accepted as they are by the backend (odds
\* sent as a number or as text, with and without a timestamp), or lacking
\* the selection
ProbeBets ==
  {[LegitBet EXCEPT !.odds = Some(o), !.oddsText = txt, !.timestamp = ts] :
     o \in {1, 2, 3, OddsLimit}, txt \in BOOLEAN, ts \in {None, Some(Day)}}
  \cup {[LegitBet EXCEPT !.selection = None]}

\* one registered account; a client holding its token or none is about to
\* probe
ClientInit ==
  /\ now = Day
  /\ objs = <<NewUser(0, AliceBody)>>
  /\ users = (0 :> 1)
  /\ sessions = (Token(0, 0) :> 1)
  /\ accountFlags = (0 :> <<>>)
  /\ bets = <<>>
  /\ res = NoRes
  /\ call \in {Some([bet |-> b, fraudType |-> f, auth |-> a]) :
                 b \in ProbeBets, f \in FraudTypes \cup {"unknown"},
                 a \in {Bearer(Token(0, 0)), <<>>}}
  /\ result = None
  /\ inflight = <<>>
  /\ retry = <<>>
  /\ appium = <<>>

\* the request reaches the backend, which answers it
ProbeAnswered ==
  /\ Has(call) /\ result = None
  /\ PlaceBet(Val(call).auth,
              FraudulentBetData(Val(call).bet, Val(call).fraudType, now))
  /\ result' = Some(ProbeResult(res'))
  /\ UNCHANGED <<call, inflight, retry, appium>>

\* the request fails in transport: no response
ProbeUnanswered ==
  /\ Has(call) /\ result = None
  /\ result' = Some(ProbeResult(NoRes))
  /\ UNCHANGED <<now, stores, res, call, inflight, retry, appium>>

ClientNext == ProbeAnswered \/ ProbeUnanswered

ClientSpec == ClientInit /\ [][ClientNext]_vars

-----------------------------------------------------------------------------
(* ErrorHandler.withRetry: src/src/utils/errorHandler.js lines 20-66.  The  *)
(* state of one call is the record retry: its maxRetries argument, the loop *)
(* counter attempt, lastError, the position pc, the log of the operation    *)
(* calls and of the sleeps it made, and how it settled.  The error thrown   *)
(* by the i-th call of the operation is written i, and so is the value the  *)
(* i-th call resolves with.  The context argument is only logged and copied *)
(* to the enhanced error.                                                   *)

MaxRetries == 3

BaseDelay == 1000
MaxDelay == 10000

Min(a, b) == IF a <= b THEN a ELSE b

\* the delay, were it not capped
BackoffBase_Uncapped(attempt) == BaseDelay * 2 ^ (attempt - 1)

\* Math.min(baseDelay * Math.pow(2, attempt - 1), maxDelay)
BackoffBase(attempt) == Min(BaseDelay * 2 ^ (attempt - 1), MaxDelay)

\* Math.floor(delay + Math.random() * 0.1 * delay) for Math.random() at 0,
\* at a quarter, at one half, just below 1, and so close to 1 that the
\* floating point sum rounds up to delay + delay / 10
BackoffDelays(attempt) ==
  LET delay == BackoffBase(attempt)
  IN {delay, delay + delay \div 40, delay + delay \div 20, delay + delay \div 10 - 1,
      delay + delay \div 10}

\* the loop condition, were the first attempt not counted on top of the
\* retries
LoopContinues_RetriesOnly(attempt, maxRetries) == attempt <= maxRetries

\* attempt <= maxRetries + 1
LoopContinues(attempt, maxRetries) == attempt <= maxRetries + 1

\* the catch block, were it never to wait
SleepsAfter_Never(attempt, maxRetries) == FALSE

\* if (attempt <= maxRetries): a failed attempt is followed by a sleep
SleepsAfter(attempt, maxRetries) == attempt <= maxRetries

\* the top of the loop: the next call of the operation, or the throw after it
LoopTop(attempt, maxRetries) ==
  IF LoopContinues(attempt, maxRetries) THEN "call" ELSE "throw"

\* withRetry(operation, context, maxRetries) up to its first await
RetryStart(maxRetries) ==
  [maxRetries |-> maxRetries, attempt |-> 1, lastError |-> None,
   pc |-> LoopTop(1, maxRetries), log |-> <<>>, value |-> None, error |-> None]

\* enhanceError(lastError, context, attempts): `error.message` of an
\* undefined lastError throws a TypeError in its place
EnhanceError(lastError, attempts) ==
  IF Has(lastError)
  THEN [name |-> "Error", originalError |-> lastError, attempts |-> Some(attempts)]
  ELSE [name |-> "TypeError", originalError |-> None, attempts |-> None]

\* `await operation()` settles: resolved (ok) or rejected
OperationSettles(s, ok) ==
  LET called == [s EXCEPT !.log = Append(@, [event |-> "call", attempt |-> s.attempt,
                                             ok |-> ok, ms |-> 0])]
  IN IF ok
     THEN [called EXCEPT !.value = Some(s.attempt), !.pc = "returned"]
     ELSE IF SleepsAfter(s.attempt, s.maxRetries)
          THEN [called EXCEPT !.lastError = Some(s.attempt), !.pc = "sleep"]
          ELSE [called EXCEPT !.lastError = Some(s.attempt),
                              !.attempt = @ + 1,
                              !.pc = LoopTop(s.attempt + 1, s.maxRetries)]

\* `await this.sleep(delay)` returns, delay = calculateBackoffDelay(attempt)
SleepReturns(s, delay) ==
  [s EXCEPT !.log = Append(@, [event |-> "sleep", attempt |-> s.attempt,
                               ok |-> TRUE, ms |-> delay]),
            !.attempt = @ + 1,
            !.pc = LoopTop(s.attempt + 1, s.maxRetries)]

\* throw this.enhanceError(lastError, context, maxRetries + 1)
ThrowEnhanced(s) ==
  [s EXCEPT !.error = Some(EnhanceError(s.lastError, s.maxRetries + 1)),
            !.pc = "rejected"]

RetryCounts == (0 - 2)..MaxRetries

RetryInit ==
  /\ now = 0
  /\ objs = <<>>
  /\ users = <<>>
  /\ sessions = <<>>
  /\ accountFlags = <<>>
  /\ bets = <<>>
  /\ res = NoRes
  /\ call = None
  /\ result = None
  /\ inflight = <<>>
  /\ retry \in {RetryStart(maxRetries) : maxRetries \in RetryCounts}
  /\ appium = <<>>

Operation ==
  /\ retry.pc = "call"
  /\ \E ok \in BOOLEAN : retry' = OperationSettles(retry, ok)
  /\ UNCHANGED <<now, stores, res, pure, inflight, appium>>

Sleep ==
  /\ retry.pc = "sleep"
  /\ \E delay \in BackoffDelays(retry.attempt) : retry' = SleepReturns(retry, delay)
  /\ UNCHANGED <<now, stores, res, pure, inflight, appium>>

Throw ==
  /\ retry.pc = "throw"
  /\ retry' = ThrowEnhanced(retry)
  /\ UNCHANGED <<now, stores, res, pure, inflight, appium>>

RetryNext == Operation \/ Sleep \/ Throw

RetrySpec == RetryInit /\ [][RetryNext]_vars

\* a pending operation settles and a pending timer fires
RetryLive == RetrySpec /\ WF_vars(RetryNext)

-----------------------------------------------------------------------------
(* ErrorHandler.calculateBackoffDelay on its own, for the attempt numbers  *)
(* up to MaxAttempt: the delay doubles up to attempt 4 and is capped from   *)
(* attempt 5 on                                                             *)

MaxAttempt == 20

BackoffInit ==
  /\ now = 0
  /\ objs = <<>>
  /\ users = <<>>
  /\ sessions = <<>>
  /\ accountFlags = <<>>
  /\ bets = <<>>
  /\ res = NoRes
  /\ call \in {Some(attempt) : attempt \in 1..MaxAttempt}
  /\ result = None
  /\ inflight = <<>>
  /\ retry = <<>>
  /\ appium = <<>>

CalculateBackoffDelay ==
  /\ result = None
  /\ \E delay \in BackoffDelays(Val(call)) : result' = Some(delay)
  /\ UNCHANGED <<now, stores, res, call, inflight, retry, appium>>

BackoffNext == CalculateBackoffDelay

BackoffSpec == BackoffInit /\ [][BackoffNext]_vars

-----------------------------------------------------------------------------
(* The Logger: src/src/utils/fakeDataGenerator.js lines 114-239.  A value  *)
(* of JavaScript is a record with its type; the levels object is           *)
(* { error: 0, warn: 1, info: 2, debug: 3 }, and like every object it also  *)
(* answers to the names it inherits from Object.prototype.                  *)

Num(n) == [type |-> "number", n |-> n]
Undefined == [type |-> "undefined", n |-> 0]
Function == [type |-> "function", n |-> 0]

\* x || y: undefined and 0 are falsy, a function is truthy
Truthy(v) == v.type = "function" \/ (v.type = "number" /\ v.n # 0)

LevelNames == <<"error", "warn", "info", "debug">>
InheritedNames == {"constructor", "toString"}

\* this.levels[name]
Levels(name) ==
  IF \E i \in 1..Len(LevelNames) : LevelNames[i] = name
  THEN Num((CHOOSE i \in 1..Len(LevelNames) : LevelNames[i] = name) - 1)
  ELSE IF name \in InheritedNames THEN Function
  ELSE Undefined

\* process.env.LOG_LEVEL || 'info'
LogLevel(env) == IF TruthyStr(env) THEN Val(env) ELSE "info"

\* this.levels[this.logLevel] || this.levels.info
CurrentLevel(env) ==
  IF Truthy(Levels(LogLevel(env))) THEN Levels(LogLevel(env)) ELSE Levels("info")

\* this.currentLevel >= this.levels[level]: a function compares as NaN
Emits(currentLevel, level) ==
  currentLevel.type = "number" /\ currentLevel.n >= Levels(level).n

\* process.env.CONSOLE_LOGGING !== 'false'
ConsoleLogging(env) == env # Some("false")

LoggerInit ==
  /\ now = 0
  /\ objs = <<>>
  /\ users = <<>>
  /\ sessions = <<>>
  /\ accountFlags = <<>>
  /\ bets = <<>>
  /\ res = NoRes
  /\ call \in {Some([LOG_LEVEL |-> l, CONSOLE_LOGGING |-> c, level |-> m]) :
                 l \in {None, Some(""), Some("verbose"), Some("ERROR"),
                        Some("constructor")}
                       \cup {Some(LevelNames[i]) : i \in 1..Len(LevelNames)},
                 c \in {None, Some("false")},
                 m \in {LevelNames[i] : i \in 1..Len(LevelNames)}}
  /\ result = None
  /\ inflight = <<>>
  /\ retry = <<>>
  /\ appium = <<>>

\* new Logger()
NewLogger ==
  /\ result = None
  /\ result' = Some([currentLevel |-> CurrentLevel(Val(call).LOG_LEVEL),
                     consoleLogging |-> ConsoleLogging(Val(call).CONSOLE_LOGGING),
                     emitted |-> None])
  /\ UNCHANGED <<now, stores, res, call, inflight, retry, appium>>

\* logger.error / warn / info / debug (message): what was written where
LogMessage ==
  /\ Has(result)
  /\ ~Has(Val(result).emitted)
  /\ LET on == Emits(Val(result).currentLevel, Val(call).level)
     IN result' = Some([Val(result) EXCEPT
                          !.emitted = Some([file |-> on,
                                            console |-> on /\ Val(result).consoleLogging])])
  /\ UNCHANGED <<now, stores, res, call, inflight, retry, appium>>

LoggerNext == NewLogger \/ LogMessage

LoggerSpec == LoggerInit /\ [][LoggerNext]_vars

-----------------------------------------------------------------------------
(* The AppiumDriver singleton: src/src/utils/AppiumDriver.js lines 9-89.    *)
(* appium holds this.driver (the id of the session it refers to), the       *)
(* retryCount of the errorHandler, what the WebDriver server has seen (the  *)
(* platform of every session remote() created, in order; the sessions still *)
(* open; the sessions deleteSession was called on) and, for every test flow *)
(* that uses the singleton, where its current call stands and how its last  *)
(* call ended.  A flow awaits each call before it makes the next.  Since    *)
(* the last closeDriver: created is the set of sessions created and         *)
(* returned the set of instances getDriver returned.                        *)

MaxSessions == 3
DefaultRetries == 3

Platforms == {"android", "ios"}

\* parseInt(process.env.MAX_RETRIES) || 3: unset (NaN) and 0 are falsy
RetryCount(env) == IF TruthyNum(env) THEN Val(env) ELSE DefaultRetries

\* withRetry run to its end on an operation whose calls end as outcomes say
\* (how long it sleeps does not bear on how it ends)
RECURSIVE RunRetry(_, _)
RunRetry(s, outcomes) ==
  CASE s.pc = "call" -> RunRetry(OperationSettles(s, Head(outcomes)), Tail(outcomes))
    [] s.pc = "sleep" -> RunRetry(SleepReturns(s, BackoffBase(s.attempt)), outcomes)
    [] s.pc = "throw" -> ThrowEnhanced(s)
    [] OTHER -> s

\* how the calls of remote() made by one withRetry may end
RemoteOutcomes(retryCount) ==
  [1..(IF retryCount >= 0 THEN retryCount + 1 ELSE 0) -> BOOLEAN]

\* getDriver, were it to initialise a driver on every call
NeedsInit_Always(driver) == TRUE

\* if (!this.driver)
NeedsInit(driver) == ~Has(driver)

\* closeDriver, were the reset in the try block and not in a finally
DriverAfterClose_KeptOnFailure(driver, deleted) ==
  IF deleted THEN None ELSE driver

\* finally { this.driver = null }
DriverAfterClose(driver, deleted) == None

IdleCall ==
  [pc |-> "idle", op |-> "none", platform |-> "", target |-> 0, ret |-> None,
   threw |-> FALSE]

\* a call that has ended: resolved with ret, or rejected
Ended(op, platform, ret, threw) ==
  [pc |-> "idle", op |-> op, platform |-> platform, target |-> 0, ret |-> ret,
   threw |-> threw]

AppiumStart(flows, retryCount) ==
  [driver |-> None, retryCount |-> retryCount, remote |-> <<>>, open |-> {},
   deleted |-> <<>>, created |-> {}, returned |-> {},
   calls |-> [f \in 1..flows |-> IdleCall]]

\* one flow; MAX_RETRIES unset, 0, 1 or -1
DriverInit ==
  /\ now = 0
  /\ objs = <<>>
  /\ users = <<>>
  /\ sessions = <<>>
  /\ accountFlags = <<>>
  /\ bets = <<>>
  /\ res = NoRes
  /\ call = None
  /\ result = None
  /\ inflight = <<>>
  /\ retry = <<>>
  /\ appium \in {AppiumStart(1, RetryCount(env)) :
                   env \in {None, Some(0), Some(1), Some(0 - 1)}}

Flows == DOMAIN appium.calls

\* getDriver(platform) up to its first await: lines 19-28
GetDriver(f, platform) ==
  /\ appium.calls[f].pc = "idle"
  /\ IF NeedsInit(appium.driver)
     THEN /\ Len(appium.remote) < MaxSessions
          /\ appium' = [appium EXCEPT
                          !.calls[f] = [IdleCall EXCEPT !.pc = "init", !.op = "getDriver",
                                                        !.platform = platform]]
     ELSE appium' = [appium EXCEPT
                       !.calls[f] = Ended("getDriver", platform, appium.driver, FALSE),
                       !.returned = @ \cup {Val(appium.driver)}]
  /\ UNCHANGED <<now, stores, res, pure, inflight, retry>>

\* the withRetry of lines 28-42 settles: this.driver = the new session and
\* return this.driver (lines 44-61), or the catch of lines 48-57 rethrows
DriverInitialized(f) ==
  /\ appium.calls[f].pc = "init"
  /\ \E outcomes \in RemoteOutcomes(appium.retryCount) :
       LET r == RunRetry(RetryStart(appium.retryCount), outcomes)
           sid == Len(appium.remote) + 1
           platform == appium.calls[f].platform
       IN IF r.pc = "returned"
          THEN appium' = [appium EXCEPT
                            !.driver = Some(sid),
                            !.remote = Append(@, platform),
                            !.open = @ \cup {sid},
                            !.created = @ \cup {sid},
                            !.returned = @ \cup {sid},
                            !.calls[f] = Ended("getDriver", platform, Some(sid), FALSE)]
          ELSE appium' = [appium EXCEPT
                            !.calls[f] = Ended("getDriver", platform, None, TRUE)]
  /\ UNCHANGED <<now, stores, res, pure, inflight, retry>>

\* closeDriver() up to its await: lines 74-78
CloseDriver(f) ==
  /\ appium.calls[f].pc = "idle"
  /\ IF Has(appium.driver)
     THEN appium' = [appium EXCEPT
                       !.deleted = Append(@, Val(appium.driver)),
                       !.calls[f] = [IdleCall EXCEPT !.pc = "closing", !.op = "closeDriver",
                                                     !.target = Val(appium.driver)]]
     ELSE appium' = [appium EXCEPT
                       !.created = {}, !.returned = {},
                       !.calls[f] = Ended("closeDriver", "", None, FALSE)]
  /\ UNCHANGED <<now, stores, res, pure, inflight, retry>>

\* deleteSession() settles: lines 78-87
SessionDeleted(f) ==
  /\ appium.calls[f].pc = "closing"
  /\ \E ok \in BOOLEAN :
       appium' = [appium EXCEPT
                    !.open = IF ok THEN @ \ {appium.calls[f].target} ELSE @,
                    !.driver = DriverAfterClose(@, ok),
                    !.created = {}, !.returned = {},
                    !.calls[f] = Ended("closeDriver", "", None, FALSE)]
  /\ UNCHANGED <<now, stores, res, pure, inflight, retry>>

DriverNext ==
  \/ \E f \in Flows : \E platform \in Platforms : GetDriver(f, platform)
  \/ \E f \in Flows : DriverInitialized(f)
  \/ \E f \in Flows : CloseDriver(f)
  \/ \E f \in Flows : SessionDeleted(f)

DriverSpec == DriverInit /\ [][DriverNext]_vars

-----------------------------------------------------------------------------
(* Overlapping calls on the AppiumDriver singleton: two test flows that do *)
(* not wait for each other                                                  *)

OverlapInit ==
  /\ now = 0
  /\ objs = <<>>
  /\ users = <<>>
  /\ sessions = <<>>
  /\ accountFlags = <<>>
  /\ bets = <<>>
  /\ res = NoRes
  /\ call = None
  /\ result = None
  /\ inflight = <<>>
  /\ retry = <<>>
  /\ appium \in {AppiumStart(2, RetryCount(env)) : env \in {None, Some(1)}}

OverlapSpec == OverlapInit /\ [][DriverNext]_vars

-----------------------------------------------------------------------------
(* Properties *)

\* req.user.id of a request that carries a valid token
Caller(auth) == objs[ReqUser(auth)].id
TotalFlags(flags) == SumLen(flags, DOMAIN flags)
FlagsOf(flags, id) == MapGetOr(flags, id, <<>>)

\* the rules of the engine that match a body at an evaluation time
AnyRule(betData, t) ==
  \/ AmountRule(betData)
  \/ OddsRule(betData)
  \/ MatchRule(betData)
  \/ TimestampRule(betData, t)
  \/ TamperRule(betData)

\* a body with the four required fields supplied
AllSupplied(betData) ==
  /\ Len(betData.matchId) > 0
  /\ Has(betData.amount)
  /\ Has(betData.odds)
  /\ Has(betData.selection)

\* C1: a Bet record is added or changed only by a POST /bets/place that
\* answers 201 for a body that none of the five rules matches, and that step
\* leaves flags and statuses alone; a request judged fraudulent appends one
\* flag and leaves the Bet Store as it was.
C1_BetOnlyIfLegit ==
  [][/\ \A i \in 1..Len(bets') :
          (i > Len(bets) \/ bets'[i] # bets[i]) =>
             /\ res'.op = "place"
             /\ res'.status = 201
             /\ AllSupplied(bets'[i].val.data)
             /\ ~AnyRule(bets'[i].val.data, now)
             /\ accountFlags' = accountFlags
             /\ objs' = objs
      /\ \A auth \in ValidHeaders : \A betData \in BetBodies :
          (/\ ~MissingBetInfo(betData)
           /\ AnyRule(betData, now)
           /\ res'.op = "place"
           /\ PlaceBet(auth, betData)) =>
             /\ bets' = bets
             /\ TotalFlags(accountFlags') = TotalFlags(accountFlags) + 1
             /\ res'.status = 400
             /\ res'.fraudType # ""]_vars

C1_Witness ==
  /\ Len(bets) >= 1
  /\ TotalFlags(accountFlags) >= 1
  /\ res.op = "place"
  /\ res.fraudType # ""

\* C2: whenever the flag list that a token's requests are filed under holds
\* exactly 3 fraud-attempt flags, GET /users/account-status with that token
\* answers 200 with status "blocked" and fraudWarnings = 3.
C2_ThirdFlagBlocks ==
  \A tok \in DOMAIN sessions :
    FraudAttempts(FlagsOf(accountFlags, objs[sessions[tok]].id)) = BlockThreshold =>
      LET r == StatusReply(Bearer(tok))
      IN /\ r.status = 200
         /\ Val(r.view).status = "blocked"
         /\ Val(r.view).fraudWarnings = BlockThreshold

\* C3: an account of the Account Store whose status is blocked is still in
\* the store, and blocked, after every step.
C3_BlockedStaysBlocked ==
  [][\A k \in DOMAIN users :
       objs[users[k]].status = "blocked" =>
         /\ k \in DOMAIN users'
         /\ objs'[users'[k]].status = "blocked"]_vars

\* C4: an authenticated POST /bets/place whose amount is <= 0, with matchId,
\* odds and selection supplied, is rejected as fraud: the Bet Store is
\* unchanged, exactly one flag is appended to the caller's list, and the
\* reported category is negative-amount unless a later rule matches too.
C4_NonPositiveAmountIsFraud ==
  [][\A auth \in ValidHeaders : \A betData \in BetBodies :
       (/\ AllSupplied(betData)
        /\ Val(betData.amount) <= 0
        /\ PlaceBet(auth, betData)) =>
          /\ bets' = bets
          /\ Len(FlagsOf(accountFlags', Caller(auth))) =
               Len(FlagsOf(accountFlags, Caller(auth))) + 1
          /\ TotalFlags(accountFlags') = TotalFlags(accountFlags) + 1
          /\ res'.status = 400
          /\ res'.fraudType # ""
          /\ (~OddsRule(betData) /\ ~MatchRule(betData)
              /\ ~TimestampRule(betData, now) /\ ~TamperRule(betData))
               => res'.fraudType = "negative-amount"]_vars

\* C5: an authenticated POST /bets/place with the four required fields (and
\* no other field) and no matching rule answers 201, adds exactly one Bet record, of status
\* pending, makes the caller's history one longer, and leaves every flag
\* list and every status unchanged.
C5_LegitBetAddsOne ==
  [][\A auth \in ValidHeaders : \A betData \in BetBodies :
       (/\ ~Has(betData.userId)
        /\ ~MissingBetInfo(betData)
        /\ ~AnyRule(betData, now)
        /\ PlaceBet(auth, betData)) =>
          /\ res'.status = 201
          /\ Len(bets') = Len(bets) + 1
          /\ bets'[Len(bets')].val.status = "pending"
          /\ Len(HistoryReply(auth)'.list) = Len(HistoryReply(auth).list) + 1
          /\ accountFlags' = accountFlags
          /\ objs' = objs]_vars

TamperedBet ==
  [LegitBet EXCEPT !.amount = Some(0 - 50), !.serverBypass = Some(TRUE)]
IncompleteBodies ==
  {[TamperedBet EXCEPT !.matchId = <<>>],
   [TamperedBet EXCEPT !.amount = None],
   [TamperedBet EXCEPT !.odds = None],
   [TamperedBet EXCEPT !.selection = None]}

\* the validation refuses each of them
IncompleteRejected == \A body \in IncompleteBodies : MissingBetInfo(body)

\* C9: an authenticated POST /bets/place from which matchId, amount, odds or
\* selection is absent answers 400 'Missing required bet information' and
\* changes no store, whatever rule the fields it does carry would match:
\* the validation refuses every such body, and a request that it refuses
\* leaves every store as it was.
C9_MissingFieldChangesNothing ==
  [][res'.op = "place" =>
       /\ IncompleteRejected
       /\ \A betData \in {b \in BetBodies : ~AllSupplied(b)} :
            \A auth \in ValidHeaders :
              PlaceBet(auth, betData) =>
                /\ res' = From("place", Reply(400, "Missing required bet information"))
                /\ UNCHANGED stores]_vars

C9_Witness ==
  /\ res.op = "place"
  /\ res.status = 400
  /\ res.error = "Missing required bet information"
  /\ DOMAIN sessions # {}
  /\ \E betData \in BetBodies : ~AllSupplied(betData) /\ AnyRule(betData, now)

\* C10: POST /bets/place, GET /bets/history and GET /users/account-status
\* answer 401 'Unauthorized: Missing token' to a request without an
\* Authorization header and 401 'Unauthorized: Invalid token' to a token that
\* the Session Store does not hold, and change no store, whatever the body.
C10_Expected(op, auth) ==
  From(op, Reply(401, IF auth = <<>> THEN "Unauthorized: Missing token"
                      ELSE "Unauthorized: Invalid token"))

C10_AuthGate ==
  [][\A auth \in RejectedHeaders :
       IF res'.op = "place"
       THEN \A betData \in {LegitBet, NegativeBet} :
              PlaceBet(auth, betData) =>
                res' = C10_Expected("place", auth) /\ UNCHANGED stores
       ELSE IF res'.op = "history"
       THEN BetHistory(auth) =>
              res' = C10_Expected("history", auth) /\ UNCHANGED stores
       ELSE IF res'.op = "status"
       THEN AccountStatus(auth) =>
              res' = C10_Expected("status", auth) /\ UNCHANGED stores
       ELSE TRUE]_vars

C10_Witness ==
  /\ res = C10_Expected("place", Bearer(InvalidToken))
  /\ DOMAIN sessions # {}
  /\ bets = <<>>
  /\ TotalFlags(accountFlags) = 0

-----------------------------------------------------------------------------
(* Properties of the stores *)

\* C11: no two accounts of the Account Store share a username, and no two
\* share an email.
C11_UniqueUsernameEmail ==
  \A k1 \in DOMAIN users : \A k2 \in DOMAIN users :
    k1 # k2 =>
      /\ objs[users[k1]].username # objs[users[k2]].username
      /\ objs[users[k1]].email # objs[users[k2]].email

C11_Witness ==
  /\ Cardinality(DOMAIN users) >= 2
  /\ res.op = "register"
  /\ res.status = 409

\* a registration body with its three required fields
Complete(userData) ==
  /\ TruthyStr(userData.username)
  /\ TruthyStr(userData.email)
  /\ TruthyStr(userData.password)

\* some registration has already succeeded with this username or this email
\* (objs holds the user object of every successful registration)
AlreadyRegistered(userData) ==
  \E o \in 1..Len(objs) :
    \/ Some(objs[o].username) = userData.username
    \/ Some(objs[o].email) = userData.email

\* C12: a registration whose username or whose email is that of an account
\* registered before answers 409 'Username or email already exists' and
\* leaves the Account, Session and flag stores as they were.
C12_DuplicateRefused ==
  [][res'.op = "register" =>
       \A userData \in {u \in RegisterBodies : Complete(u)} :
         (AlreadyRegistered(userData) /\ Register(userData)) =>
           /\ res' = From("register", Reply(409, "Username or email already exists"))
           /\ UNCHANGED <<objs, users, sessions, accountFlags>>]_vars

\* C13: an account of the Account Store stays in it under the same key with
\* the same id, username, email and password after every step.
C13_AccountStays ==
  [][\A k \in DOMAIN users :
       /\ k \in DOMAIN users'
       /\ objs'[users'[k]].id = objs[users[k]].id
       /\ objs'[users'[k]].username = objs[users[k]].username
       /\ objs'[users'[k]].email = objs[users[k]].email
       /\ objs'[users'[k]].password = objs[users[k]].password]_vars

\* s is a prefix of t
Prefix(s, t) == Len(s) <= Len(t) /\ SubSeq(t, 1, Len(s)) = s

\* C14: every flag list is, after a step, an extension of what it was before
\* the step, and it grows only in a step in which a POST /bets/place carrying
\* a token of the account stored under its key is rejected as fraud.
C14_FlagsAppendOnly ==
  [][\A k \in DOMAIN accountFlags :
       /\ k \in DOMAIN accountFlags'
       /\ Prefix(accountFlags[k], accountFlags'[k])
       /\ accountFlags'[k] # accountFlags[k] =>
            /\ res'.op = "place"
            /\ res'.fraudType # ""
            /\ \E auth \in ValidHeaders : \E betData \in BetBodies :
                 /\ k \in DOMAIN users
                 /\ users[k] = ReqUser(auth)
                 /\ PlaceBet(auth, betData)]_vars

\* C15: a Bet record of the Bet Store is still there, unchanged, after every
\* step.
C15_BetStays ==
  [][\A i \in 1..Len(bets) :
       /\ i <= Len(bets')
       /\ bets'[i] = bets[i]]_vars

\* C16: a token of the Session Store is still there, and resolves to the
\* same account record, after every step.
C16_TokenStays ==
  [][\A tok \in DOMAIN sessions :
       /\ tok \in DOMAIN sessions'
       /\ sessions'[tok] = sessions[tok]]_vars

\* C18: a POST /bets/place leaves the flag list and the status of every
\* stored account other than the one its token was issued to as they were.
C18_NoCrossAccountEffect ==
  [][res'.op = "place" =>
       \A auth \in ValidHeaders : \A betData \in BetBodies :
         PlaceBet(auth, betData) =>
           \A k \in DOMAIN users :
             users[k] # ReqUser(auth) =>
               /\ FlagsOf(accountFlags', k) = FlagsOf(accountFlags, k)
               /\ objs'[users[k]].status = objs[users[k]].status]_vars

-----------------------------------------------------------------------------
(* Properties of the views and of the authentication routes *)

\* a JSON string, as an element of an array whose other elements are objects
JsonString(s) == [string |-> s]
\* chai's include on an array: some element is strictly equal to the entry
IncludesEntry(list, entry) == \E i \in 1..Len(list) : list[i] = entry

\* C21: whenever the flag list that a token's requests are filed under holds
\* three or more fraud-attempt flags, GET /users/account-status with that
\* token answers 200 with a flags list that includes the entry
\* 'fraud-attempts' and with fraudWarnings > 0.
C21_FlagEntryListed ==
  \A tok \in DOMAIN sessions :
    FraudAttempts(FlagsOf(accountFlags, objs[sessions[tok]].id)) >= BlockThreshold =>
      LET r == StatusReply(Bearer(tok))
      IN /\ r.status = 200
         /\ IncludesEntry(Val(r.view).flags, JsonString("fraud-attempts"))
         /\ Val(r.view).fraudWarnings > 0

\* C22: a GET /users/account-status that answers 200 changes no store, and
\* its view follows the stores: restrictions is [betting_restricted,
\* withdrawal_restricted] when the flag list under the account id holds a
\* fraud-attempt flag and empty otherwise; verificationStatus is rejected
\* when the stored status is blocked and verified otherwise; fraudWarnings is
\* the number of fraud-attempt flags of that list.
C22_StatusDerived ==
  [][res'.op = "status" =>
       /\ UNCHANGED stores
       /\ \A auth \in ValidHeaders :
            (AccountStatus(auth) /\ res'.status = 200) =>
               LET id == Caller(auth)
                   n == FraudAttempts(FlagsOf(accountFlags, id))
                   view == Val(res'.view)
               IN /\ view.restrictions =
                       IF n >= 1
                       THEN <<"betting_restricted", "withdrawal_restricted">>
                       ELSE <<>>
                  /\ view.verificationStatus =
                       IF objs[users[id]].status = "blocked"
                       THEN "rejected" ELSE "verified"
                  /\ view.fraudWarnings = n
                  /\ view.status = objs[users[id]].status
                  /\ view.flags = FlagsOf(accountFlags, id)]_vars

C22_Witness ==
  /\ res.op = "status"
  /\ res.status = 200
  /\ Val(res.view).status = "active"
  /\ Val(res.view).fraudWarnings >= 1
  /\ Val(res.view).restrictions # <<>>

\* C23: a POST /bets/place that answers 201 makes the caller's history one
\* longer: every bet it listed before is still listed, the new bet is
\* listed, and the list is in non-increasing order of createdAt; and the
\* history is empty while the Bet Store is.
C23_HistoryComplete ==
  [][res'.op = "place" =>
       \A auth \in ValidHeaders : \A betData \in BetBodies :
         (PlaceBet(auth, betData) /\ res'.status = 201) =>
            LET before == HistoryReply(auth).list
                after == HistoryReply(auth)'.list
            IN /\ bets = <<>> => before = <<>>
               /\ Len(after) = Len(before) + 1
               /\ \A i \in 1..Len(before) : IncludesEntry(after, before[i])
               /\ \E j \in 1..Len(after) : after[j].id = Val(res'.bet).id
               /\ \A j \in 1..(Len(after) - 1) :
                    after[j].createdAt >= after[j + 1].createdAt]_vars

\* C24: a registration with username, email and password, neither username
\* nor email in use, answers 201 with a token that authenticates as a new
\* account of the Account Store, of status active, whose flag list is empty;
\* the user view of the reply is that of the account and has no password.
C24_RegisterCreates ==
  [][res'.op = "register" =>
       \A userData \in {u \in RegisterBodies : Complete(u)} :
         (~UsernameOrEmailExists(userData) /\ Register(userData)) =>
            /\ res'.status = 201
            /\ Has(res'.token)
            /\ Val(res'.token) \in DOMAIN sessions'
            /\ LET o == sessions'[Val(res'.token)]
               IN /\ o > Len(objs)
                  /\ \E k \in DOMAIN users' : users'[k] = o
                  /\ Some(objs'[o].username) = userData.username
                  /\ Some(objs'[o].email) = userData.email
                  /\ objs'[o].status = "active"
                  /\ FlagsOf(accountFlags', objs'[o].id) = <<>>
                  /\ res'.user = Some(PublicUser(objs'[o]))
                  /\ "password" \notin DOMAIN Val(res'.user)]_vars

\* C25: a login whose username and password are those of no stored account
\* answers 401 'Invalid credentials' without a token and changes no store; a
\* login with those of a stored account of status active answers 200 with a
\* token of the Session Store that resolves to that account, and with the
\* view of that account.
C25_LoginOutcome ==
  [][res'.op = "login" =>
       \A body \in LoginBodies :
         Login(body) =>
           LET matches ==
                 {k \in DOMAIN users :
                    /\ Some(objs[users[k]].username) = body.username
                    /\ Some(objs[users[k]].password) = body.password}
           IN /\ matches = {} =>
                   /\ res' = From("login", Reply(401, "Invalid credentials"))
                   /\ UNCHANGED stores
              /\ \A k \in matches :
                   objs[users[k]].status = "active" =>
                     /\ res'.status = 200
                     /\ Has(res'.token)
                     /\ Val(res'.token) \in DOMAIN sessions'
                     /\ sessions'[Val(res'.token)] = users[k]
                     /\ res'.user = Some(PublicUser(objs[users[k]]))
                     /\ UNCHANGED <<objs, users, accountFlags, bets>>]_vars

C25_Witness ==
  /\ res.op = "login"
  /\ res.status = 200
  /\ Cardinality(DOMAIN users) >= 2
  /\ Has(res.token)
  /\ Val(res.user).username = "bob"
  /\ objs[sessions[Val(res.token)]].username = "bob"

-----------------------------------------------------------------------------
(* Properties of concurrent requests *)

AllDone == \A r \in DOMAIN inflight : inflight[r].pc = "done"

\* C17: once every one of the concurrent fraudulent requests on the account
\* that held 2 flags has been served, in whatever order, the account is
\* blocked and its flag list holds 2 flags plus one per request, those of
\* the requests in the order they were served.
C17_NoLostFlag ==
  (inflight # <<>> /\ AllDone) =>
     /\ objs[users[0]].status = "blocked"
     /\ Len(accountFlags[0]) = 2 + Len(inflight)
     /\ \A r \in DOMAIN inflight :
          \E i \in 3..Len(accountFlags[0]) : accountFlags[0][i].data = inflight[r].body

C17_Witness ==
  /\ Len(inflight) = MaxConcurrent
  /\ AllDone
  /\ Len(accountFlags[0]) = 2 + MaxConcurrent

-----------------------------------------------------------------------------
(* Properties of the fraud probe *)

\* C19: for a payload the backend accepts as it is, each of the five probe
\* mutations sent with a valid token returns success = false and
\* fraudDetected = true, and no Bet is stored.
C19_ProbesRejected ==
  (/\ Has(result)
   /\ Val(call).fraudType \in FraudTypes
   /\ Val(call).auth \in ValidHeaders
   /\ PlaceOutcome(Val(call).bet, now) = "legit") =>
     /\ Val(result).success = FALSE
     /\ Val(result).fraudDetected = TRUE
     /\ bets = <<>>

\* the response the probe got is an error reply with a fraud category
FraudShaped(response) ==
  /\ response.status # 0
  /\ ~Resolves(response)
  /\ response.error # ""
  /\ response.fraudType # ""

\* C20 as stated: fraudDetected is true exactly when the response is a
\* non-2xx reply with a fraud-shaped error body.
C20_FraudShapedOnly ==
  Has(result) => (Val(result).fraudDetected <=> FraudShaped(res))

\* C20 amended: fraudDetected is true exactly when the POST does not end in
\* a 2xx response (whatever the error body, and also when no response
\* arrives), and success is its negation.
C20_AnyRejection ==
  Has(result) =>
    /\ Val(result).fraudDetected <=> ~Resolves(res)
    /\ Val(result).success <=> Resolves(res)

C20_Witness ==
  /\ Has(result)
  /\ res.op = "place"
  /\ res.status = 401
  /\ Val(result).fraudDetected

-----------------------------------------------------------------------------
(* Properties of withRetry *)

Settled == retry.pc \in {"returned", "rejected"}
Calls == SelectSeq(retry.log, LAMBDA e : e.event = "call")
Sleeps == SelectSeq(retry.log, LAMBDA e : e.event = "sleep")
AllFailed == \A i \in 1..Len(Calls) : ~Calls[i].ok

\* C26: a withRetry with maxRetries >= 0 whose operation fails on every
\* call settles; it never invokes the operation more than maxRetries + 1
\* times; and once settled it has invoked it exactly maxRetries + 1 times and
\* is rejected with an enhanced error whose attempts is maxRetries + 1 and
\* whose originalError is the error of the last call.
C26_ExhaustsRetries ==
  /\ [](\/ ~(retry.maxRetries >= 0 /\ AllFailed)
        \/ /\ Len(Calls) <= retry.maxRetries + 1
           /\ Settled =>
                /\ retry.pc = "rejected"
                /\ Len(Calls) = retry.maxRetries + 1
                /\ Val(retry.error).name = "Error"
                /\ Val(retry.error).attempts = Some(retry.maxRetries + 1)
                /\ Val(retry.error).originalError = Some(Len(Calls)))
  /\ <>Settled

C26_Witness ==
  /\ retry.pc = "rejected"
  /\ retry.maxRetries = 2
  /\ Len(Calls) = 3
  /\ AllFailed

\* C27: a withRetry with a negative maxRetries whose operation fails has,
\* once settled, invoked the operation exactly once and is rejected.
C27_NegativeRetriesCallOnce ==
  (retry.maxRetries < 0 /\ Settled /\ AllFailed) =>
     /\ Len(Calls) = 1
     /\ retry.pc = "rejected"

\* C28: a withRetry that returns has stopped at the first success: with k
\* calls made, k <= maxRetries + 1, calls 1..k-1 failed and call k succeeded,
\* the value returned is that of call k, and the log is call 1, sleep 1,
\* call 2, .., sleep k-1, call k, the i-th sleep lasting a value of
\* calculateBackoffDelay(i).
C28_StopsAtFirstSuccess ==
  retry.pc = "returned" =>
    LET k == Len(Calls)
    IN /\ k >= 1
       /\ k <= retry.maxRetries + 1
       /\ \A i \in 1..k : Calls[i].attempt = i /\ (Calls[i].ok <=> i = k)
       /\ retry.value = Some(k)
       /\ Len(Sleeps) = k - 1
       /\ Len(retry.log) = 2 * k - 1
       /\ \A i \in 1..(k - 1) :
            /\ retry.log[2 * i - 1].event = "call"
            /\ retry.log[2 * i].event = "sleep"
            /\ retry.log[2 * i].attempt = i
            /\ retry.log[2 * i].ms \in BackoffDelays(i)
       /\ retry.log[2 * k - 1].event = "call"

C28_Witness ==
  /\ retry.pc = "returned"
  /\ Len(Calls) = 3
  /\ Len(Sleeps) = 2
  /\ retry.maxRetries = 3

-----------------------------------------------------------------------------
(* Properties of the AppiumDriver singleton *)

\* C29: with sequential calls, since the last closeDriver at most one
\* session has been created; every instance getDriver has returned since
\* then, whatever the platform asked for, is that one session, created
\* after that closeDriver, and it is the stored driver.
C29_OneSessionPerEpoch ==
  /\ Cardinality(appium.created) <= 1
  /\ appium.returned \subseteq appium.created
  /\ \A sid \in appium.returned : appium.driver = Some(sid)
  /\ \A f \in Flows :
       (appium.calls[f].pc = "idle" /\ appium.calls[f].op = "getDriver"
        /\ ~appium.calls[f].threw) =>
          /\ Has(appium.calls[f].ret)
          /\ Val(appium.calls[f].ret) \in appium.returned

C29_Witness ==
  /\ Len(appium.remote) = 2
  /\ appium.returned = {2}
  /\ appium.remote[2] = "android"
  /\ appium.calls[1].op = "getDriver"
  /\ appium.calls[1].platform = "ios"
  /\ appium.calls[1].ret = Some(2)

\* C30: a closeDriver that ends leaves the stored driver null and does not
\* throw, whether deleteSession succeeded or failed; a closeDriver called
\* while no driver is stored ends at once, calls no deleteSession and
\* leaves the driver and the sessions as they were.
C30_CloseAlwaysResets ==
  [][\A f \in Flows :
       /\ SessionDeleted(f) =>
            /\ appium'.driver = None
            /\ appium'.calls[f].pc = "idle"
            /\ ~appium'.calls[f].threw
       /\ (CloseDriver(f) /\ ~Has(appium.driver)) =>
            /\ appium'.driver = None
            /\ appium'.deleted = appium.deleted
            /\ appium'.open = appium.open
            /\ appium'.remote = appium.remote
            /\ appium'.calls[f].pc = "idle"
            /\ ~appium'.calls[f].threw]_vars

C30_Witness ==
  /\ appium.calls[1].pc = "idle"
  /\ appium.calls[1].op = "closeDriver"
  /\ appium.driver = None
  /\ Len(appium.deleted) = 1
  /\ appium.open = {1}

-----------------------------------------------------------------------------
(* Properties of overlapping driver calls *)

\* C35: with getDriver calls that overlap, since the last closeDriver at
\* most one session has been created, every instance returned is that
\* session, and no open session is other than the stored driver.
C35_OverlapCreatesOne ==
  /\ Cardinality(appium.created) <= 1
  /\ Cardinality(appium.returned) <= 1
  /\ appium.returned \subseteq appium.created
  /\ (appium.deleted = <<>> /\ Has(appium.driver)) => appium.open = {Val(appium.driver)}

-----------------------------------------------------------------------------
(* Properties of ownership, blocking and read-only requests *)

\* C32: the Bet record that an accepted POST /bets/place stores has as
\* userId the id of the account its token resolves to, whatever fields the
\* body carries, and it is listed only in the histories of that account.
C32_OwnerIsCaller ==
  [][res'.op = "place" =>
       \A auth \in ValidHeaders : \A betData \in BetBodies :
         (PlaceBet(auth, betData) /\ res'.status = 201) =>
            /\ \A i \in 1..Len(bets') :
                 bets'[i].key = Val(res'.bet).id => bets'[i].val.userId = Caller(auth)
            /\ \A tok \in DOMAIN sessions :
                 (\E j \in 1..Len(HistoryReply(Bearer(tok))'.list) :
                    HistoryReply(Bearer(tok))'.list[j].id = Val(res'.bet).id)
                   => objs[sessions[tok]].id = Caller(auth)]_vars

\* C33: an account of the Account Store is blocked exactly when the flag
\* list filed under its id holds 3 or more fraud-attempt flags.
C33_BlockedIffThreeFlags ==
  \A k \in DOMAIN users :
    objs[users[k]].status = "blocked"
      <=> FraudAttempts(FlagsOf(accountFlags, objs[users[k]].id)) >= BlockThreshold

\* C34: POST /bets/place does not look at the account's status: for a caller
\* whose account is blocked, a legitimate bet is answered 201 and stored, and
\* a fraudulent one is answered 400 and adds one flag to the caller's list.
C34_BlockedStillBets ==
  [][res'.op = "place" =>
       \A auth \in ValidHeaders : \A betData \in BetBodies :
         (PlaceBetHandler(auth, betData) /\ objs[ReqUser(auth)].status = "blocked") =>
            CASE PlaceOutcome(betData, now) = "legit" ->
                   /\ res'.status = 201
                   /\ \E i \in 1..Len(bets') :
                        /\ bets'[i].key = Val(res'.bet).id
                        /\ bets'[i].val.data = betData
                        /\ bets'[i].val.createdAt = now
              [] PlaceOutcome(betData, now) = "fraud" ->
                   /\ res'.status = 400
                   /\ Len(FlagsOf(accountFlags', Caller(auth)))
                        = Len(FlagsOf(accountFlags, Caller(auth))) + 1
              [] OTHER -> res'.status = 400 /\ UNCHANGED stores]_vars

C34_Witness ==
  /\ res.op = "place"
  /\ res.status = 201
  /\ Len(bets) >= 1
  /\ \E k \in DOMAIN users :
       /\ objs[users[k]].status = "blocked"
       /\ bets[1].val.userId = objs[users[k]].id
       /\ Len(FlagsOf(accountFlags, objs[users[k]].id)) > BlockThreshold

\* C36: a step that answers GET /bets/history, GET /users/account-status or
\* GET /health, and a step of any route that answers 401, 403, 404 or 409,
\* leaves the Account, Session, Bet and flag stores as they were.
C36_ReadOnlyAndRefusals ==
  [][(\/ res'.op \in {"history", "status", "health"}
      \/ res'.status \in {401, 403, 404, 409}) => UNCHANGED stores]_vars

C36_Witness ==
  /\ res.op = "health"
  /\ res.status = 200
  /\ Len(bets) >= 1
  /\ TotalFlags(accountFlags) >= 1

-----------------------------------------------------------------------------
(* Properties of the Logger and of the backoff delay *)

\* C31: a Logger built with LOG_LEVEL error, warn, info or debug has
\* currentLevel 0, 1, 2 or 3, and one built with any other or no LOG_LEVEL
\* has that of info; a message is written exactly when the rank of its level
\* is at most currentLevel.
C31_LevelsAndFilter ==
  Has(result) =>
    LET env == Val(call).LOG_LEVEL
        cur == Val(result).currentLevel
    IN /\ \A i \in 1..Len(LevelNames) : env = Some(LevelNames[i]) => cur = Num(i - 1)
       /\ (\A i \in 1..Len(LevelNames) : env # Some(LevelNames[i])) => cur = Num(2)
       /\ Has(Val(result).emitted) =>
            (Val(Val(result).emitted).file <=>
               (cur.type = "number" /\ Levels(Val(call).level).n <= cur.n))

\* C38: for an attempt number a >= 1, calculateBackoffDelay(a) is an
\* integer d with base <= d <= base + base / 10, base the smaller of
\* 1000 * 2^(a-1) and 10000; the base does not decrease from a to a + 1 and
\* is at most 10000, and d is at most 11000.
C38_DelayWithinJitter ==
  Has(result) =>
    LET a == Val(call)
        d == Val(result)
        base == IF a >= 5 THEN 10000 ELSE 1000 * 2 ^ (a - 1)
    IN /\ d \in Int
       /\ base <= d
       /\ 10 * d <= 11 * base
       /\ base <= 10000
       /\ d <= 11000
       /\ base = BackoffBase(a)
       /\ BackoffBase(a) <= BackoffBase(a + 1)

C38_Witness ==
  /\ Has(result)
  /\ Val(call) >= 5
  /\ Val(result) = 11000

-----------------------------------------------------------------------------
(* Properties of the fraud rule engine *)

\* the five rules in their evaluation order
Rules(betData, t) ==
  <<[cond |-> AmountRule(betData), type |-> "negative-amount",
     reason |-> "Fraud detected: Invalid bet amount"],
    [cond |-> OddsRule(betData), type |-> "odds-manipulation",
     reason |-> "Fraud detected: Suspicious odds manipulation"],
    [cond |-> MatchRule(betData), type |-> "match-alteration",
     reason |-> "Fraud detected: Match ID tampering detected"],
    [cond |-> TimestampRule(betData, t), type |-> "timestamp-manipulation",
     reason |-> "Fraud detected: Timestamp manipulation detected"],
    [cond |-> TamperRule(betData), type |-> "request-tampering",
     reason |-> "Fraud detected: Unauthorized request fields"]>>

Matching(betData, t) == {i \in 1..5 : Rules(betData, t)[i].cond}

\* the reference: the last matching rule decides
LastMatch(betData, t) ==
  IF Matching(betData, t) = {} THEN NoFraud
  ELSE LET last == CHOOSE i \in Matching(betData, t) :
                     \A j \in Matching(betData, t) : j <= i
       IN [isFraudulent |-> TRUE,
           fraudReason |-> Rules(betData, t)[last].reason,
           fraudType |-> Rules(betData, t)[last].type]

\* C6: the verdict is that of the last rule, in the order negative-amount,
\* odds-manipulation, match-alteration, timestamp-manipulation,
\* request-tampering, that matches; of the only one when one matches; and
\* legitimate when none does.
C6_LastMatchWins ==
  Has(result) => Val(result) = LastMatch(Val(call), now)

C6_Witness ==
  /\ Has(result)
  /\ Cardinality(Matching(Val(call), now)) >= 2
  /\ AmountRule(Val(call))
  /\ Val(result).fraudType = "timestamp-manipulation"

\* C7: a body in which serverBypass or adminApproval is present, whatever its
\* value, is judged fraudulent with category request-tampering.
C7_PresenceIsTampering ==
  (Has(result) /\ (Has(Val(call).serverBypass) \/ Has(Val(call).adminApproval))) =>
     /\ Val(result).isFraudulent
     /\ Val(result).fraudType = "request-tampering"

\* C37: the verdict is timestamp-manipulation exactly when the body carries
\* a timestamp more than one hour (3600000 ms) older than the evaluation
\* time and the later rule, request-tampering, does not match; a body
\* without a timestamp, or with one exactly one hour old, newer, or in the
\* future, is not judged fraudulent on account of its timestamp.
C37_OlderThanOneHour ==
  Has(result) =>
    LET ts == Val(call).timestamp
        old == Has(ts) /\ now - Val(ts) > 3600000
    IN /\ old => Val(result).isFraudulent
       /\ Val(result).fraudType = "timestamp-manipulation"
            <=> (old /\ ~TamperRule(Val(call)))
       /\ (~old /\ ~AmountRule(Val(call)) /\ ~OddsRule(Val(call))
           /\ ~MatchRule(Val(call)) /\ ~TamperRule(Val(call)))
            => ~Val(result).isFraudulent

\* a body judged fraudulent for its timestamp alone, that was legitimate a
\* millisecond earlier, when its timestamp was exactly one hour old
C37_Witness ==
  /\ Has(result)
  /\ Val(result).fraudType = "timestamp-manipulation"
  /\ Has(Val(call).timestamp)
  /\ now - Val(Val(call).timestamp) = Hour + 1
  /\ ~FraudVerdict(Val(call), now - 1).isFraudulent
====
